---------------------------- MODULE Spec2Model ----------------------------
(***************************************************************************)
(* A model of zod_filter.py: binary STL decoding, thickness based          *)
(* detection of male clipping parts, point-wise inflation around the       *)
(* detected spots, normal recomputation and binary STL encoding, driven    *)
(* by main() over the list of files given on the command line.             *)
(*                                                                         *)
(* Numbers.  The program computes on Python floats.  The model computes on *)
(* exact fixed-point numbers: the integer n stands for the real number     *)
(* n / Unit.  Unit = 20 * 20 * 20 makes every operation of the program     *)
(* exact on the inputs the model draws (coordinates on a 0.005 grid):      *)
(* the keys of detect_parts lie on the 1/20 grid, the midpoints on the     *)
(* 0.0025 grid, and an offset from an anchor times 23/20 or 25/20 is again *)
(* an integer.  Rounding of a float to its nearest representable value is  *)
(* below the resolution of the model.                                      *)
(*                                                                         *)
(* Objects.  binary_facet builds every Point from a fresh list (line 115)  *)
(* and detect_parts builds every spot from a fresh list (line 156), so no  *)
(* two points share their coordinates list: points are modelled as values. *)
(***************************************************************************)
EXTENDS Integers, Sequences, FiniteSets, TLC

\* ------------------------------------------------------------------ numbers

Unit == 20 * 20 * 20
\* 0.005, the grid of the input coordinates
Tick == Unit \div 200

Abs(x) == IF x < 0 THEN -x ELSE x
Min2(a, b) == IF a <= b THEN a ELSE b
Max2(a, b) == IF a >= b THEN a ELSE b

\* floor(n / d) and the remainder in 0 .. d-1, for d > 0 and any integer n
FloorDiv(n, d) == IF n >= 0 THEN n \div d ELSE -((-n + d - 1) \div d)

\* Python 3's round() of the real n / d to an integer: to the nearest, and a
\* tie to the even neighbour
PyRound(n, d) ==
    LET q == FloorDiv(n, d)
        r == n - q * d
    IN  IF 2 * r < d THEN q
        ELSE IF 2 * r > d THEN q + 1
        ELSE IF q % 2 = 0 THEN q ELSE q + 1

\* -------------------------------------------------------------------- Point

\* the proximity threshold 2.9 of Point.inflate_parts
NearLimit == (29 * Unit) \div 10

\* the first loop of Point.inflate_parts: near_spot after the loop
NearSpot(coordinates, spot) ==
    \A index \in 0..2 :
        index # spot.free =>
            ~(Abs(coordinates[index + 1] - spot.anchor[index + 1]) > NearLimit)

\* (c - a) * factor + a, the factor being the fraction num / den
ScaleAround(c, a, factor) == ((c - a) * factor.num) \div factor.den + a

\* the second loop of Point.inflate_parts: the coordinates after it
InflateAround(coordinates, spot, factor) ==
    [i \in 1..3 |->
        IF i - 1 # spot.free
        THEN ScaleAround(coordinates[i], spot.anchor[i], factor)
        ELSE coordinates[i]]

\* Point.inflate_parts from the spot at position i on: the point's coordinates
\* after the call and the value returned
RECURSIVE PointInflateFrom(_, _, _, _)
PointInflateFrom(coordinates, spots, factor, i) ==
    IF i > Len(spots)
    THEN [coordinates |-> coordinates, matched |-> FALSE]
    ELSE IF NearSpot(coordinates, spots[i])
         THEN [coordinates |-> InflateAround(coordinates, spots[i], factor),
               matched |-> TRUE]
         ELSE PointInflateFrom(coordinates, spots, factor, i + 1)

\* Point.inflate_parts without its "return True": every spot near the point,
\* as moved so far, scales it again
RECURSIVE PointInflateOn(_, _, _, _, _)
PointInflateOn(coordinates, spots, factor, i, matched) ==
    IF i > Len(spots)
    THEN [coordinates |-> coordinates, matched |-> matched]
    ELSE IF NearSpot(coordinates, spots[i])
         THEN PointInflateOn(InflateAround(coordinates, spots[i], factor),
                             spots, factor, i + 1, TRUE)
         ELSE PointInflateOn(coordinates, spots, factor, i + 1, matched)

PointInflateNoReturn(coordinates, spots, factor) ==
    PointInflateOn(coordinates, spots, factor, 1, FALSE)

\* Point.inflate_parts with near_spot set once, before the loop over the
\* spots, and tested after it: no spot at all counts as a match
PointInflateNearByDefault(coordinates, spots, factor) ==
    IF spots = << >>
    THEN [coordinates |-> coordinates, matched |-> TRUE]
    ELSE PointInflateFrom(coordinates, spots, factor, 1)

PointInflateParts(coordinates, spots, factor) ==
    PointInflateFrom(coordinates, spots, factor, 1)

\* -------------------------------------------------------------------- Facet

\* Facet.__init__
NewFacet(points) == [points |-> points, colored |-> FALSE]

\* Facet.inflate_parts with "self.colored = point.inflate_parts(...)": the
\* last point decides
FacetInflateLastWins(facet, spots, factor) ==
    LET res == [i \in 1..3 |-> PointInflateParts(facet.points[i], spots, factor)]
    IN  [facet |-> [points |-> [i \in 1..3 |-> res[i].coordinates],
                    colored |-> res[3].matched],
         hits |-> [i \in 1..3 |-> res[i].matched]]

\* Facet.inflate_parts with "self.colored = any(...)": the points after the
\* first match are never visited
FacetInflateShortCircuit(facet, spots, factor) ==
    LET res == [i \in 1..3 |-> PointInflateParts(facet.points[i], spots, factor)]
        seen == [i \in 1..3 |-> \A j \in 1..(i - 1) : ~res[j].matched]
    IN  [facet |-> [points |-> [i \in 1..3 |->
                                   IF seen[i] THEN res[i].coordinates
                                   ELSE facet.points[i]],
                    colored |-> facet.colored \/ \E i \in 1..3 : res[i].matched],
         hits |-> [i \in 1..3 |-> seen[i] /\ res[i].matched]]

\* Facet.inflate_parts: the facet after the call, and what each point's call
\* returned (the model's record of the calls; the program keeps only colored)
FacetInflateParts(facet, spots, factor) ==
    LET res == [i \in 1..3 |-> PointInflateParts(facet.points[i], spots, factor)]
    IN  [facet |-> [points |-> [i \in 1..3 |-> res[i].coordinates],
                    colored |-> facet.colored \/ \E i \in 1..3 : res[i].matched],
         hits |-> [i \in 1..3 |-> res[i].matched]]

\* Facet.normal.  center is the mean of the three points, so 3 * u1 and
\* 3 * u2 are integers; cross is 9 times the cross product u1 x u2 and is
\* zero exactly when the program's is.  norm, the square root of the scalar
\* product of the cross product with itself, is then 0.0 and normal / norm
\* raises ZeroDivisionError; otherwise the result is the cross product scaled
\* to length one, of which the model keeps the direction.
FacetNormal(facet) ==
    LET p == facet.points
        total == [i \in 1..3 |-> p[1][i] + p[2][i] + p[3][i]]
        u1 == [i \in 1..3 |-> 3 * p[1][i] - total[i]]
        u2 == [i \in 1..3 |-> 3 * p[2][i] - total[i]]
        cross == << u1[2] * u2[3] - u1[3] * u2[2],
                    u1[3] * u2[1] - u1[1] * u2[3],
                    u1[1] * u2[2] - u1[2] * u2[1] >>
    IN  IF cross = << 0, 0, 0 >>
        THEN [exc |-> "ZeroDivisionError", direction |-> cross]
        ELSE [exc |-> "none", direction |-> cross]

\* binary_facet: the three points are fields 3..5, 6..8 and 9..11 (counted
\* from 0) of the 13 unpacked fields
BinaryFacet(all_coordinates) ==
    NewFacet([i \in 1..3 |-> SubSeq(all_coordinates, 3 + 3 * (i - 1) + 1,
                                                      6 + 3 * (i - 1))])

\* ---------------------------------------------------------------------- Stl

\* Stl.points: the points of all facets, in facet order then point order
StlPoints(facets) ==
    [n \in 1..(3 * Len(facets)) |->
        facets[((n - 1) \div 3) + 1].points[((n - 1) % 3) + 1]]

\* itertools.permutations(range(3), r=2), in the order it yields them
AxisPairs == << <<0, 1>>, <<0, 2>>, <<1, 0>>, <<1, 2>>, <<2, 0>>, <<2, 1>> >>

\* next(d for d in range(3) if d != scanning and d != slicing)
FreeDimension(scanning, slicing) ==
    CHOOSE d \in 0..2 : d # scanning /\ d # slicing

\* round(x * 20.0) / 20.0
ScanKey(x) == PyRound(x * 20, Unit) * (Unit \div 20)

\* the index of key in the dict limits (entries in insertion order), 0 if absent
KeyIndex(limits, key) ==
    IF \E i \in 1..Len(limits) : limits[i].key = key
    THEN CHOOSE i \in 1..Len(limits) : limits[i].key = key
    ELSE 0

\* the dict limits of detect_parts after the first n points: a new key starts
\* at [inf, -inf], so its first point sets both extrema
RECURSIVE ScanLimits(_, _, _, _)
ScanLimits(pts, scanning, slicing, n) ==
    IF n = 0 THEN << >>
    ELSE LET limits == ScanLimits(pts, scanning, slicing, n - 1)
             coordinate == pts[n][slicing + 1]
             key == ScanKey(pts[n][scanning + 1])
             at == KeyIndex(limits, key)
         IN  IF at = 0
             THEN Append(limits, [key |-> key, lo |-> coordinate, hi |-> coordinate])
             ELSE [limits EXCEPT ![at].lo = Min2(coordinate, @),
                                 ![at].hi = Max2(coordinate, @)]

\* 2.29 <= size < 2.36
MaleThicknessOpen(size) ==
    (229 * Unit) \div 100 <= size /\ size < (236 * Unit) \div 100

\* 2.29 <= size <= 2.36
MaleThickness(size) ==
    (229 * Unit) \div 100 <= size /\ size <= (236 * Unit) \div 100

\* the spot detect_parts appends for one entry of limits
SpotOf(scanning, slicing, entry) ==
    [anchor |-> [i \in 1..3 |->
                    IF i - 1 = slicing THEN (entry.lo + entry.hi) \div 2
                    ELSE IF i - 1 = scanning THEN entry.key
                    ELSE 0],
     free |-> FreeDimension(scanning, slicing)]

\* the spots one (scanning, slicing) pair appends, in the order of limits.items()
PairSpots(facets, scanning, slicing) ==
    LET pts == StlPoints(facets)
        limits == ScanLimits(pts, scanning, slicing, Len(pts))
        male == SelectSeq(limits, LAMBDA e : MaleThickness(e.hi - e.lo))
    IN  [i \in 1..Len(male) |-> SpotOf(scanning, slicing, male[i])]

\* Stl.detect_parts: the spots of the first k pairs
RECURSIVE DetectFrom(_, _)
DetectFrom(facets, k) ==
    IF k = 0 THEN << >>
    ELSE DetectFrom(facets, k - 1)
         \o PairSpots(facets, AxisPairs[k][1], AxisPairs[k][2])

DetectParts(facets) == DetectFrom(facets, Len(AxisPairs))

\* Stl.inflate_parts: every facet in turn
StlInflateParts(facets, spots, factor) ==
    [f \in 1..Len(facets) |-> FacetInflateParts(facets[f], spots, factor)]

\* A file, as parse_binary_stl reads it: cnt_bytes of the facet count are
\* present after the 80 byte header (struct 'I' takes 4), count is the facet
\* count they hold, and recs are the records present in full (13 fields
\* each: 12 floats and a short) among the first count; a stream that ends
\* inside or before a record the count announces has Len(recs) < count.
\* Stl.parse_binary_stl: the facets appended and the exception raised.
ParseBinaryStl(file) ==
    IF file.cnt_bytes = 0
    THEN [facets |-> << >>, exc |-> "none"]
    ELSE IF file.cnt_bytes < 4
    THEN [facets |-> << >>, exc |-> "struct.error"]
    ELSE LET n == Min2(file.count, Len(file.recs))
         IN  [facets |-> [i \in 1..n |-> BinaryFacet(file.recs[i])],
              exc |-> IF Len(file.recs) < file.count
                      THEN "struct.error" ELSE "none"]

\* the two attribute values of save_binary_stl
Red == 63489
Blue == 14185

\* the 13 fields save_binary_stl packs for one facet
PackedFacet(facet) ==
    FacetNormal(facet).direction
    \o facet.points[1] \o facet.points[2] \o facet.points[3]
    \o << IF facet.colored THEN Red ELSE Blue >>

\* the records save_binary_stl writes from facet i on, and the exception that
\* stops it: facet.normal() is evaluated before the record is written
RECURSIVE SaveFrom(_, _)
SaveFrom(facets, i) ==
    IF i > Len(facets) THEN [recs |-> << >>, exc |-> "none"]
    ELSE IF FacetNormal(facets[i]).exc # "none"
    THEN [recs |-> << >>, exc |-> FacetNormal(facets[i]).exc]
    ELSE LET rest == SaveFrom(facets, i + 1)
         IN  [recs |-> << PackedFacet(facets[i]) >> \o rest.recs,
              exc |-> rest.exc]

\* Stl.save_binary_stl: the file left on disk (the zeroed header, the count,
\* the records written) and the exception raised
SaveBinaryStl(facets) ==
    LET body == SaveFrom(facets, 1)
    IN  [file |-> [exists |-> TRUE, count |-> Len(facets), recs |-> body.recs],
         exc |-> body.exc]

NoFile == [exists |-> FALSE, count |-> 0, recs |-> << >>]

\* ------------------------------------------------------------------- inputs

\* the most records a file holds, and the most files on the command line
MaxFacets == 3
MaxFiles == 2
\* the most facets and spots of a direct call of Stl.inflate_parts
MaxCallFacets == 2
MaxSpots == 2

\* a point, its coordinates given in ticks of 0.005
P(x, y, z) == << x * Tick, y * Tick, z * Tick >>

\* a record of a file: the stored normal, three vertices, the attribute
Rec(p0, p1, p2) == << 0, 0, Unit >> \o p0 \o p1 \o p2 \o << 0 >>

\* thickness 2.29 along y in the slices x = 0 and z = 0
TabLow == Rec(P(0, 0, 0), P(0, 458, 0), P(0, 0, 200))
\* thickness 2.36 along x in the slices y = 0 and z = 0
TabHigh == Rec(P(0, 0, 0), P(472, 0, 0), P(0, 200, 0))
\* thickness 2.40 along y and 2.285 along z: outside the band on both sides
OffBand == Rec(P(0, 0, 0), P(0, 480, 0), P(0, 0, 457))
\* two equal vertices (zero area), thickness 2.30 along y
Degenerate == Rec(P(0, 0, 0), P(0, 0, 0), P(0, 460, 0))
\* away from every other record
Far == Rec(P(2000, 2000, 2000), P(2200, 2000, 2000), P(2000, 2200, 2000))
\* at 2.9 exactly, and at 2.905, from the anchors of TabLow
Edge == Rec(P(580, 809, 0), P(580, 700, 100), P(581, 809, 0))
\* x = 0.125 and x = 0.075 are ties of round(x * 20); a negative tie
Ties == Rec(P(25, 0, 0), P(15, 460, 0), P(-25, 230, -15))

RecordPalette == {TabLow, TabHigh, OffBand, Degenerate, Far, Edge, Ties}

SeqsUpTo(S, n) == UNION {[1..k -> S] : k \in 0..n}

\* the files: the facet count cut short (0 to 3 of its 4 bytes), or whole and
\* followed by all the records it announces or by one fewer
Files ==
    {[cnt_bytes |-> b, count |-> 0, recs |-> << >>] : b \in 0..3}
    \cup {[cnt_bytes |-> 4, count |-> Len(r) + t, recs |-> r] :
             r \in SeqsUpTo(RecordPalette, MaxFacets), t \in 0..1}

\* the factor main passes: 1.15
MainFactor == [num |-> 23, den |-> 20]

\* the factors of a direct call: 1.15 and 0.5
Factors == {MainFactor, [num |-> 10, den |-> 20]}

\* the spots of a direct call: the two spots detect_parts finds for TabLow,
\* a spot overlapping them around another anchor, and a spot at Far
SpotPalette ==
    {[anchor |-> P(0, 229, 0), free |-> 2],
     [anchor |-> P(0, 229, 0), free |-> 0],
     [anchor |-> << 3 * Tick, 231 * Tick + Tick \div 2, 0 >>, free |-> 2],
     [anchor |-> P(2000, 2100, 2000), free |-> 1]}

\* -------------------------------------------------------------------- state

VARIABLES
    nfiles,     \* len(files) in main
    fi,         \* the position in files of stl_file, from 1
    cur,        \* the content of stl_file, once main has come to open it
    pc,         \* where main is: load, detect, inflate, save, next, done, raised
    exc,        \* the exception that ended the run, "none" if none
    facets,     \* stl.facets
    spots,      \* spots in main
    factor,     \* the factor given to inflate_parts
    out,        \* the file save_binary_stl left for stl_file
    pre,        \* history: stl.facets as decoded, before any inflation
    hits,       \* history: what each point.inflate_parts call returned
    trace,      \* history: the steps run on stl_file so far
    processed   \* history: the files main has finished with

vars == << nfiles, fi, cur, pc, exc, facets, spots, factor, out, pre, hits,
           trace, processed >>

\* ----------------------------------------------------------------- main()

\* main without "if spots:"
AfterDetectAlways(found) == "inflate"

\* "if spots:" in main
AfterDetect(found) == IF found # << >> THEN "inflate" ELSE "next"

\* the content of a file main has not come to yet
Unopened == [cnt_bytes |-> 0, count |-> 0, recs |-> << >>]

Init ==
    /\ nfiles \in 1..MaxFiles
    /\ fi = 1
    /\ cur = Unopened
    /\ pc = "load"
    /\ exc = "none"
    /\ facets = << >>
    /\ spots = << >>
    /\ factor = MainFactor
    /\ out = NoFile
    /\ pre = << >>
    /\ hits = << >>
    /\ trace = << >>
    /\ processed = 0

\* stl = Stl(stl_file), whatever the file holds
DoLoad(from, to) ==
    /\ pc = from
    /\ \E file \in Files :
          LET r == ParseBinaryStl(file)
          IN  /\ cur' = file
              /\ facets' = r.facets
              /\ pre' = r.facets
              /\ exc' = r.exc
              /\ pc' = IF r.exc = "none" THEN to ELSE "raised"
    /\ trace' = Append(trace, "decode")
    /\ UNCHANGED << nfiles, fi, spots, factor, out, hits, processed >>

Load == DoLoad("load", "detect")

\* spots = stl.detect_parts() and the test of spots
Detect ==
    /\ pc = "detect"
    /\ spots' = DetectParts(facets)
    /\ pc' = AfterDetect(spots')
    /\ trace' = Append(trace, "detect")
    /\ UNCHANGED << nfiles, fi, cur, exc, facets, factor, out, pre, hits,
                    processed >>

\* stl.inflate_parts(spots, 1.15)
DoInflate(from, to) ==
    /\ pc = from
    /\ LET r == StlInflateParts(facets, spots, factor)
       IN  /\ facets' = [f \in 1..Len(facets) |-> r[f].facet]
           /\ hits' = [f \in 1..Len(facets) |-> r[f].hits]
    /\ pc' = to
    /\ trace' = Append(trace, "inflate")
    /\ UNCHANGED << nfiles, fi, cur, exc, spots, factor, out, pre, processed >>

Inflate == DoInflate("inflate", "save")

\* stl.save_binary_stl(new_filename)
DoSave(from, to) ==
    /\ pc = from
    /\ LET r == SaveBinaryStl(facets)
       IN  /\ out' = r.file
           /\ exc' = r.exc
           /\ pc' = IF r.exc = "none" THEN to ELSE "raised"
    /\ trace' = Append(trace, "encode")
    /\ UNCHANGED << nfiles, fi, cur, facets, spots, factor, pre, hits,
                    processed >>

Save == DoSave("save", "next")

\* the for loop of main goes to the next file, or ends
NextFile ==
    /\ pc = "next"
    /\ processed' = processed + 1
    /\ IF fi < nfiles
       THEN /\ fi' = fi + 1
            /\ cur' = Unopened
            /\ pc' = "load"
            /\ facets' = << >>
            /\ spots' = << >>
            /\ out' = NoFile
            /\ pre' = << >>
            /\ hits' = << >>
            /\ trace' = << >>
       ELSE /\ pc' = "done"
            /\ UNCHANGED << fi, cur, facets, spots, out, pre, hits, trace >>
    /\ UNCHANGED << nfiles, exc, factor >>

Next == Load \/ Detect \/ Inflate \/ Save \/ NextFile

Spec == Init /\ [][Next]_vars

\* --------------------------------------- Stl.inflate_parts, called directly

Meshes(n) ==
    {[i \in 1..Len(r) |-> BinaryFacet(r[i])] : r \in SeqsUpTo(RecordPalette, n)}

InitInflate ==
    /\ nfiles = 1
    /\ fi = 1
    /\ cur = Unopened
    /\ pc = "call"
    /\ exc = "none"
    /\ facets \in Meshes(MaxCallFacets)
    /\ spots \in SeqsUpTo(SpotPalette, MaxSpots)
    /\ factor \in Factors
    /\ out = NoFile
    /\ pre = facets
    /\ hits = << >>
    /\ trace = << >>
    /\ processed = 0

CallInflate == DoInflate("call", "returned")

SpecInflate == InitInflate /\ [][CallInflate]_vars

\* ------------------------------------- decode then encode, nothing between

InitRoundTrip ==
    /\ nfiles = 1
    /\ fi = 1
    /\ cur = Unopened
    /\ pc = "decode"
    /\ exc = "none"
    /\ facets = << >>
    /\ spots = << >>
    /\ factor = MainFactor
    /\ out = NoFile
    /\ pre = << >>
    /\ hits = << >>
    /\ trace = << >>
    /\ processed = 0

CallDecode == DoLoad("decode", "encode")
CallEncode == DoSave("encode", "returned")

NextRoundTrip == CallDecode \/ CallEncode

SpecRoundTrip == InitRoundTrip /\ [][NextRoundTrip]_vars

\* ------------------------------------------------------------------- claims

\* the spots, by position, within 2.9 of c on both axes other than their own
\* free dimension
SpotsWithin(c) ==
    {k \in 1..Len(spots) :
        \A a \in (0..2) \ {spots[k].free} :
            Abs(c[a + 1] - spots[k].anchor[a + 1]) <= (29 * Unit) \div 10}

\* the first of them in list order, 0 if there is none
FirstWithin(c) ==
    LET within == SpotsWithin(c)
    IN  IF within = {} THEN 0
        ELSE CHOOSE k \in within : \A m \in within : k <= m

\* c scaled once around spot s: anchor + factor * (c - anchor) on the two
\* axes other than the free dimension, c on the free dimension
ScaledOnce(c, s) ==
    [a \in 1..3 |->
        IF a - 1 = s.free THEN c[a]
        ELSE s.anchor[a] + ((c[a] - s.anchor[a]) * factor.num) \div factor.den]

\* what inflation makes of a point at c
Expected(c) ==
    LET first == FirstWithin(c)
    IN  IF first = 0 THEN c ELSE ScaledOnce(c, spots[first])

\* C1: Point.inflate_parts rewrites a point that is within 2.9 of some spot
\* on both non-free axes using the first such spot of the list only (scaled
\* offset on the non-free axes, free coordinate kept) and returns matched;
\* a point farther than 2.9 from every spot is unchanged and not matched.
C1_FirstMatchScalesOnce ==
    pc = "returned" =>
        \A f \in 1..Len(pre) : \A i \in 1..3 :
            /\ facets[f].points[i] = Expected(pre[f].points[i])
            /\ hits[f][i] = (FirstWithin(pre[f].points[i]) # 0)

\* a point within reach of two spots that would move it to different places,
\* moved; and a point out of reach of every spot, beside it
C1_Witness ==
    /\ pc = "returned"
    /\ \E f \in 1..Len(pre) : \E i \in 1..3 :
          LET c == pre[f].points[i]
          IN  /\ \E k, m \in SpotsWithin(c) :
                    ScaledOnce(c, spots[k]) # ScaledOnce(c, spots[m])
              /\ facets[f].points[i] # c
              /\ hits[f][i]
    /\ \E f \in 1..Len(pre) : \E i \in 1..3 :
          /\ SpotsWithin(pre[f].points[i]) = {}
          /\ ~hits[f][i]

\* C4: after Stl.inflate_parts a facet is colored if and only if one of its
\* own three points matched a spot (was within 2.9 of it on both non-free
\* axes); the points of other facets play no part.
C4_ColoredIffOwnPointMatched ==
    pc = "returned" =>
        \A f \in 1..Len(pre) :
            /\ facets[f].colored <=> \E i \in 1..3 : hits[f][i]
            /\ facets[f].colored
                   <=> \E i \in 1..3 : SpotsWithin(pre[f].points[i]) # {}

\* a colored facet of which one point matched and another did not, beside a
\* facet that stays uncolored
C4_Witness ==
    /\ pc = "returned"
    /\ \E f, g \in 1..Len(pre) :
          /\ facets[f].colored
          /\ \E i, j \in 1..3 : hits[f][i] /\ ~hits[f][j]
          /\ ~facets[g].colored

\* C9: Stl.inflate_parts with an empty spot list leaves every coordinate of
\* every point unchanged and every facet uncolored.
C9_NoSpotNoChange ==
    (pc = "returned" /\ spots = << >>) =>
        /\ Len(facets) = Len(pre)
        /\ \A f \in 1..Len(pre) :
              /\ facets[f].points = pre[f].points
              /\ ~facets[f].colored
              /\ \A i \in 1..3 : ~hits[f][i]

C9_Witness ==
    /\ pc = "returned"
    /\ spots = << >>
    /\ Len(pre) >= 2

\* C10: two points of the mesh, of one facet or of two, with the same
\* coordinates before Stl.inflate_parts have the same coordinates after it
\* and the same outcome (matched or not), and each is moved at most once.
C10_CoincidentStayCoincident ==
    pc = "returned" =>
        \A f, g \in 1..Len(pre) : \A i, j \in 1..3 :
            pre[f].points[i] = pre[g].points[j] =>
                /\ facets[f].points[i] = facets[g].points[j]
                /\ hits[f][i] = hits[g][j]
                /\ facets[f].points[i] \in {pre[f].points[i]}
                       \cup {ScaledOnce(pre[f].points[i], spots[k]) :
                                k \in 1..Len(spots)}

\* a vertex shared by two facets, and one repeated inside a facet, both moved
C10_Witness ==
    /\ pc = "returned"
    /\ \E f, g \in 1..Len(pre) : \E i, j \in 1..3 :
          /\ f # g
          /\ pre[f].points[i] = pre[g].points[j]
          /\ hits[f][i]
          /\ facets[f].points[i] # pre[f].points[i]
    /\ \E f \in 1..Len(pre) : \E i, j \in 1..3 :
          /\ i < j
          /\ pre[f].points[i] = pre[f].points[j]
          /\ hits[f][i]

\* the points of the decoded mesh, and the slices detect_parts cuts it into
DecodedPoints == {pre[f].points[i] : f \in 1..Len(pre), i \in 1..3}

SliceOf(scanning, slicing, key) ==
    {q[slicing + 1] : q \in {r \in DecodedPoints : ScanKey(r[scanning + 1]) = key}}

Lowest(S) == CHOOSE v \in S : \A w \in S : v <= w
Highest(S) == CHOOSE v \in S : \A w \in S : v >= w

\* every (scanning, slicing, key) with a point of the mesh in the slice
Slices ==
    {t \in (0..2) \X (0..2) \X {ScanKey(q[a]) : q \in DecodedPoints, a \in 1..3} :
        t[1] # t[2] /\ \E q \in DecodedPoints : ScanKey(q[t[1] + 1]) = t[3]}

Thickness(t) ==
    Highest(SliceOf(t[1], t[2], t[3])) - Lowest(SliceOf(t[1], t[2], t[3]))

\* those whose thickness lies in [2.29, 2.36]
SlicesInBand ==
    {t \in Slices : (229 * Unit) \div 100 <= Thickness(t)
                    /\ Thickness(t) <= (236 * Unit) \div 100}

\* the spot the claim describes for a slice
SpotFor(t) ==
    [anchor |-> [a \in 1..3 |->
                    IF a - 1 = t[1] THEN t[3]
                    ELSE IF a - 1 = t[2]
                    THEN (Lowest(SliceOf(t[1], t[2], t[3]))
                          + Highest(SliceOf(t[1], t[2], t[3]))) \div 2
                    ELSE 0],
     free |-> CHOOSE d \in 0..2 : d \notin {t[1], t[2]}]

\* C5: detect_parts emits, for each of the 6 ordered (scanning, slicing)
\* pairs and each key among the mesh points, exactly one spot if the
\* thickness max - min of the slice lies in the closed band [2.29, 2.36] and
\* none otherwise; the spot has anchor[scanning] = key, anchor[slicing] =
\* (min + max) / 2, anchor[free] = 0 and the third axis as free dimension;
\* the spots of all pairs are kept, none merged.
C5_OneSpotPerSliceInBand ==
    (Len(trace) = 2) =>
        LET found == SlicesInBand
            spot == [t \in found |-> SpotFor(t)]
        IN  /\ Len(spots) = Cardinality(found)
            /\ \A r \in {spots[n] : n \in 1..Len(spots)}
                         \cup {spot[t] : t \in found} :
                  Cardinality({n \in 1..Len(spots) : spots[n] = r})
                      = Cardinality({t \in found : spot[t] = r})

\* a mesh with a slice of thickness 2.29 exactly, one of 2.36 exactly, both
\* with their spot, and slices thicker and thinner than the band
C5_Witness ==
    /\ Len(trace) = 2
    /\ \E t \in SlicesInBand : Thickness(t) = (229 * Unit) \div 100
    /\ \E t \in SlicesInBand : Thickness(t) = (236 * Unit) \div 100
    /\ \E t \in Slices \ SlicesInBand : Thickness(t) > (236 * Unit) \div 100
    /\ \E t \in Slices \ SlicesInBand :
          Thickness(t) > 0 /\ Thickness(t) < (229 * Unit) \div 100
    /\ Len(spots) >= 2

IsPrefix(a, b) == Len(a) <= Len(b) /\ a = SubSeq(b, 1, Len(a))

\* C6: for each file the steps run in the order decode, detect, inflate,
\* encode; detection sees the whole decoded mesh, not yet inflated; without
\* spots no point is inflated and no file is written; with spots every facet
\* is inflated before encoding, so every normal and vertex written comes
\* from the points after inflation.
C6_DecodeDetectInflateEncode ==
    /\ IsPrefix(trace, << "decode", "detect", "inflate", "encode" >>)
    /\ pc = "detect" =>
          /\ facets = pre
          /\ \A f \in 1..Len(facets) : ~facets[f].colored
          /\ Len(facets) = cur.count
          /\ \A f \in 1..Len(facets) : \A i \in 1..3 :
                facets[f].points[i] = SubSeq(cur.recs[f], 3 * i + 1, 3 * i + 3)
    /\ (Len(trace) >= 2 /\ spots = << >>) =>
          /\ Len(trace) = 2
          /\ facets = pre
          /\ ~out.exists
    /\ out.exists =>
          /\ spots # << >>
          /\ Len(hits) = Len(pre)
          /\ \A k \in 1..Len(out.recs) :
                LET moved == [i \in 1..3 |-> Expected(pre[k].points[i])]
                IN  /\ \A i \in 1..3 :
                          SubSeq(out.recs[k], 3 * i + 1, 3 * i + 3) = moved[i]
                    /\ SubSeq(out.recs[k], 1, 3)
                          = FacetNormal([points |-> moved,
                                         colored |-> TRUE]).direction

\* a file written in full, a vertex of which was moved by the inflation
C6_Witness ==
    /\ pc = "next"
    /\ out.exists
    /\ Len(out.recs) >= 2
    /\ \E k \in 1..Len(out.recs) : \E i \in 1..3 :
          SubSeq(out.recs[k], 3 * i + 1, 3 * i + 3) # pre[k].points[i]

\* C2: a file with a facet record cut short aborts the processing of that
\* file only: nothing is written for it, the run does not end with an
\* exception, and main goes on to the later files.
C2_TruncatedRecordSkipsFile ==
    (trace # << >> /\ cur.cnt_bytes = 4 /\ Len(cur.recs) < cur.count) =>
        /\ pc # "raised"
        /\ ~out.exists
        /\ Len(trace) = 1

\* C3: a stream that ends before the 4 bytes of the facet count are all
\* there (0, 1, 2 or 3 of them) is an empty mesh, and no exception is raised.
C3_ShortCountIsEmptyMesh ==
    (trace # << >> /\ cur.cnt_bytes < 4) =>
        /\ exc = "none"
        /\ pc # "raised"
        /\ pre = << >>

\* C7: save_binary_stl ends without an exception for every mesh, degenerate
\* facets included, and the file holds the count N and N records.
C7_SaveWritesAllRecords ==
    (Len(trace) = 4) =>
        /\ exc = "none"
        /\ out.exists
        /\ out.count = Len(facets)
        /\ Len(out.recs) = out.count

\* C8: decoding a well-formed file of N records and encoding the result gives
\* a file of count N with N records, the i-th carrying the 3 vertices of the
\* i-th input record in the same order; the mesh has 3 points per facet.
C8_RoundTripKeepsVertices ==
    /\ \A f \in 1..Len(facets) : Len(facets[f].points) = 3
    /\ (Len(trace) = 2 /\ cur.cnt_bytes = 4 /\ Len(cur.recs) = cur.count) =>
          /\ out.exists
          /\ out.count = cur.count
          /\ Len(out.recs) = cur.count
          /\ \A k \in 1..Len(out.recs) :
                SubSeq(out.recs[k], 4, 12) = SubSeq(cur.recs[k], 4, 12)

=============================================================================
